---- MODULE Spec2Model ----
(***************************************************************************)
(* Model of src/src/provisioning.ts: provisionDomainWithHosting, the       *)
(* four-stage domain-to-hosting workflow, with its helpers findTool and    *)
(* errorMessage.  One invocation of the async function is a "run"; the     *)
(* code between two awaits executes atomically (single-threaded event      *)
(* loop), so there is one action for the call itself and one for the       *)
(* settlement of each awaited tool.run().                                  *)
(***************************************************************************)
EXTENDS Integers, Sequences, FiniteSets, TLC

VARIABLES runs, guard

vars == <<runs, guard>>

\* ---------------------------------------------------------------- bounds

\* Number of workflow invocations the model holds.
NumRuns == 2

\* Longest nameserver list a caller supplies.
MaxNs == 2

Runs == 1..NumRuns

\* The runs the sequential specification drives (one invocation at a time).
SeqRuns == {r \in Runs : r <= 1}

\* ------------------------------------------------------- JSON-like values

JUndef == [t |-> "undefined"]
JNull == [t |-> "null"]
JBool(b) == [t |-> "bool", b |-> b]
JNum(n) == [t |-> "num", n |-> n]
JStr(s) == [t |-> "str", s |-> s]
JObj(f) == [t |-> "obj", f |-> f]
JArr(a) == [t |-> "arr", a |-> a]
JError(m) == [t |-> "Error", message |-> m]

\* JavaScript truthiness: Boolean(v), `if (v)`.
Truthy(v) ==
  CASE v.t = "undefined" -> FALSE
    [] v.t = "null" -> FALSE
    [] v.t = "bool" -> v.b
    [] v.t = "num" -> v.n # 0
    [] v.t = "str" -> v.s # ""
    [] OTHER -> TRUE

\* a ?? d
Nullish(v, d) == IF v.t \in {"undefined", "null"} THEN d ELSE v

\* v?.name  (property read with optional chaining)
GetProp(v, name) ==
  IF v.t = "obj" /\ name \in DOMAIN v.f THEN v.f[name] ELSE JUndef

\* String(v) for the values a tool may throw that are not Error objects.
JsString(v) ==
  CASE v.t = "str" -> v.s
    [] v.t = "num" -> ToString(v.n)
    [] v.t = "null" -> "null"
    [] v.t = "undefined" -> "undefined"
    [] v.t = "bool" -> IF v.b THEN "true" ELSE "false"
    [] OTHER -> "[object Object]"

\* ------------------------------------------------------------- strings

\* A domain string is a sequence of characters.
Whitespace == {" ", "\t", "\n"}

RECURSIVE TrimStart(_)
TrimStart(s) ==
  IF s = <<>> THEN s
  ELSE IF Head(s) \in Whitespace THEN TrimStart(Tail(s)) ELSE s

RECURSIVE TrimEnd(_)
TrimEnd(s) ==
  IF s = <<>> THEN s
  ELSE IF s[Len(s)] \in Whitespace THEN TrimEnd(SubSeq(s, 1, Len(s) - 1)) ELSE s

\* Faulty variant of Trim: the domain is taken as given.
TrimNothing(s) == s

\* String.prototype.trim
Trim(s) == TrimEnd(TrimStart(s))

\* ------------------------------------------------------------- helpers

\* Index of the first tool named `name` in the registry, 0 when none
\* (Array.prototype.find returning undefined).
RECURSIVE FindIndex(_, _, _)
FindIndex(tools, name, i) ==
  IF i > Len(tools) THEN 0
  ELSE IF tools[i].name = name THEN i ELSE FindIndex(tools, name, i + 1)

\* Faulty variant of findTool: only the first entry of the registry is examined.
findToolFirstOnly(tools, name) ==
  IF Len(tools) > 0 /\ tools[1].name = name THEN 1 ELSE 0

findTool(tools, name) == FindIndex(tools, name, 1)

\* Faulty variant of NotFoundError: the message does not say which tool is missing.
NotFoundErrorUnnamed(name) == JError("Required tool not found in provided toolset")

\* The Error findTool throws.
NotFoundError(name) ==
  JError("Required tool \"" \o name \o "\" not found in provided toolset")

errorMessage(err) == IF err.t = "Error" THEN err.message ELSE JsString(err)

\* ------------------------------------------------------ state of one run

\* Names under which the workflow resolves its four operations.
CheckTool == "inwx_domain_check"
RegisterTool == "inwx_domain_register"
NameserverTool == "inwx_nameserver_set"
ProvisionTool == "isp_provision_site"

NoParams == [none |-> TRUE]
NoResult == [none |-> TRUE]

\* A run that has not been called yet.  steps, created, domain and
\* domainAvailable are the function's locals; calls, lookups, responses and
\* thrown are history (what the registries' tools observed, what findTool was
\* asked for, how each awaited call settled, which exceptions were raised).
IdleRun ==
  [pc |-> "idle", inwxTools |-> <<>>, ispTools |-> <<>>, params |-> NoParams,
   steps |-> <<>>, created |-> <<>>, domain |-> <<>>, domainAvailable |-> FALSE,
   result |-> NoResult, rejection |-> JUndef,
   calls |-> <<>>, lookups |-> <<>>, responses |-> <<>>, thrown |-> <<>>]

\* Faulty variant of Push: the step is put in front (unshift).
PushFront(s, step) == [s EXCEPT !.steps = <<step>> \o @]

\* steps.push(step)
Push(s, step) == [s EXCEPT !.steps = Append(@, step)]

\* created.key = value
SetCreated(s, key, value) == [s EXCEPT !.created = (key :> value) @@ @]

\* return { ok, domain, steps, created }
Return(s, ok) ==
  [s EXCEPT !.pc = "done",
            !.result = [ok |-> ok, domain |-> s.domain, steps |-> s.steps,
                        created |-> s.created]]

\* An exception that leaves the async function: the promise rejects.
Reject(s, err) == [s EXCEPT !.pc = "rejected", !.rejection = err]

\* Faulty variant of Catch: the handler rethrows instead of returning a result.
CatchRethrows(s, stepName, err) == Reject(s, err)

\* Faulty variant of Catch: the handler records the error step but reports success.
CatchReturnsOk(s, stepName, err) ==
  Return(Push(s, [step |-> stepName, status |-> "error", error |-> errorMessage(err)]),
         TRUE)

\* catch (err) { steps.push({step, status: "error", error}); return {ok: false, ...} }
Catch(s, stepName, err) ==
  Return(Push(s, [step |-> stepName, status |-> "error", error |-> errorMessage(err)]),
         FALSE)

\* An exception raised inside the try block of stage stepName.
Throw(s, stepName, err) ==
  Catch([s EXCEPT !.thrown = Append(@, err)], stepName, err)

\* tools.find(...) is evaluated for `name` in registry `reg`.
Lookup(s, reg, name) ==
  [s EXCEPT !.lookups = Append(@, [registry |-> reg, name |-> name])]

\* await tool.run(args): the call is issued and the run suspends at `pc`.
Invoke(s, reg, idx, name, args, pc) ==
  [s EXCEPT !.calls = Append(@, [registry |-> reg, index |-> idx, name |-> name,
                                 params |-> args]),
            !.pc = pc]

\* The awaited call settles with outcome o.
Settled(s, name, o) == [s EXCEPT !.responses = Append(@, [name |-> name, outcome |-> o])]

\* -------------------------------------------------------------- stage 4

\* Faulty variant of ProvisionParams: serverId is always sent, as a placeholder
\* when the caller gave none.
ProvisionParamsAlwaysServerId(s) ==
  [domain |-> s.domain, clientName |-> s.params.clientName,
   clientEmail |-> s.params.clientEmail, serverIp |-> s.params.serverIp,
   createMail |-> Nullish(s.params.createMail, JBool(TRUE)),
   createDb |-> Nullish(s.params.createDb, JBool(TRUE)),
   serverId |-> s.params.serverId]

ProvisionParams(s) ==
  LET p == s.params
      base == [domain |-> s.domain, clientName |-> p.clientName,
               clientEmail |-> p.clientEmail, serverIp |-> p.serverIp,
               createMail |-> Nullish(p.createMail, JBool(TRUE)),
               createDb |-> Nullish(p.createDb, JBool(TRUE))]
  IN IF p.serverId.t \notin {"null", "undefined"}
     THEN [serverId |-> p.serverId] @@ base
     ELSE base

Step4Provision(s) ==
  LET s1 == Lookup(s, "isp", ProvisionTool)
      i == findTool(s.ispTools, ProvisionTool)
  IN IF i = 0
     THEN Throw(s1, "isp_provision", NotFoundError(ProvisionTool))
     ELSE Invoke(s1, "isp", i, ProvisionTool, ProvisionParams(s), "await_provision")

ProvisionResolved(s, ispResult) ==
  LET s1 == Push(s, [step |-> "isp_provision", status |-> "ok", data |-> ispResult])
      s2 == SetCreated(s1, "hostingProvisioned", TRUE)
      s3 == SetCreated(s2, "ispProvisionResult", ispResult)
  IN Return(s3, TRUE)

\* Faulty variant of ProvisionRejected: the created flags are cleared on failure.
ProvisionRejectedRollsBack(s, err) ==
  Throw([s EXCEPT !.created = <<>>], "isp_provision", err)

ProvisionRejected(s, err) == Throw(s, "isp_provision", err)

\* -------------------------------------------------------------- stage 3

\* Faulty variant of Step3Nameservers: the list's length is not tested.
Step3NameserversAlwaysSet(s) ==
  LET s1 == Lookup(s, "inwx", NameserverTool)
      i == findTool(s.inwxTools, NameserverTool)
  IN IF i = 0
     THEN Throw(s1, "nameserver_set", NotFoundError(NameserverTool))
     ELSE Invoke(s1, "inwx", i, NameserverTool,
                 [domain |-> s.domain, ns |-> s.params.nameservers],
                 "await_nameserver")

\* Faulty variant of Step3Nameservers: nsTool.run is not awaited.
Step3NameserversNoAwait(s) ==
  IF Len(s.params.nameservers) > 0
  THEN LET s1 == Lookup(s, "inwx", NameserverTool)
           i == findTool(s.inwxTools, NameserverTool)
       IN IF i = 0
          THEN Throw(s1, "nameserver_set", NotFoundError(NameserverTool))
          ELSE Step4Provision(
                 Invoke(s1, "inwx", i, NameserverTool,
                        [domain |-> s.domain, ns |-> s.params.nameservers],
                        "await_nameserver"))
  ELSE Step4Provision(Push(s, [step |-> "nameserver_set", status |-> "skipped",
                               data |-> [reason |-> "no nameservers provided"]]))

Step3Nameservers(s) ==
  IF Len(s.params.nameservers) > 0
  THEN LET s1 == Lookup(s, "inwx", NameserverTool)
           i == findTool(s.inwxTools, NameserverTool)
       IN IF i = 0
          THEN Throw(s1, "nameserver_set", NotFoundError(NameserverTool))
          ELSE Invoke(s1, "inwx", i, NameserverTool,
                      [domain |-> s.domain, ns |-> s.params.nameservers],
                      "await_nameserver")
  ELSE Step4Provision(Push(s, [step |-> "nameserver_set", status |-> "skipped",
                               data |-> [reason |-> "no nameservers provided"]]))

\* Faulty variant of NameserverResolved: created.nameserversConfigured is not set.
NameserverResolvedNoFlag(s, nsResult) ==
  Step4Provision(Push(s, [step |-> "nameserver_set", status |-> "ok", data |-> nsResult]))

NameserverResolved(s, nsResult) ==
  Step4Provision(
    SetCreated(Push(s, [step |-> "nameserver_set", status |-> "ok", data |-> nsResult]),
               "nameserversConfigured", TRUE))

\* Faulty variant of NameserverRejected: the error is recorded but hosting is
\* provisioned all the same.
NameserverRejectedContinues(s, err) ==
  Step4Provision(
    Push([s EXCEPT !.thrown = Append(@, err)],
         [step |-> "nameserver_set", status |-> "error", error |-> errorMessage(err)]))

NameserverRejected(s, err) == Throw(s, "nameserver_set", err)

\* -------------------------------------------------------------- stage 2

\* Faulty variant of RegisterParams: the period default is applied with ||, so
\* a supplied period of 0 is replaced as well.
RegisterParamsFalsyDefault(s) ==
  [domain |-> s.domain,
   period |-> IF Truthy(s.params.registrationPeriod) THEN s.params.registrationPeriod
              ELSE JNum(1),
   ns |-> s.params.nameservers,
   contacts |-> s.params.contacts]

RegisterParams(s) ==
  [domain |-> s.domain,
   period |-> Nullish(s.params.registrationPeriod, JNum(1)),
   ns |-> s.params.nameservers,
   contacts |-> s.params.contacts]

\* Faulty variant of Step2Register: an unavailable domain ends the workflow.
Step2RegisterUnavailableAborts(s) ==
  IF Truthy(s.params.skipRegistration)
  THEN Step3Nameservers(
         SetCreated(Push(s, [step |-> "domain_register", status |-> "skipped",
                             data |-> [reason |-> "skipRegistration=true"]]),
                    "domainRegistered", FALSE))
  ELSE IF s.domainAvailable
  THEN LET s1 == Lookup(s, "inwx", RegisterTool)
           i == findTool(s.inwxTools, RegisterTool)
       IN IF i = 0
          THEN Throw(s1, "domain_register", NotFoundError(RegisterTool))
          ELSE Invoke(s1, "inwx", i, RegisterTool, RegisterParams(s), "await_register")
  ELSE Return(
         SetCreated(Push(s, [step |-> "domain_register", status |-> "skipped",
                             data |-> [reason |-> "domain not available"]]),
                    "domainRegistered", FALSE),
         TRUE)

\* Faulty variant of Step2Register: availability is tested before the skip flag.
Step2RegisterAvailableFirst(s) ==
  IF s.domainAvailable
  THEN LET s1 == Lookup(s, "inwx", RegisterTool)
           i == findTool(s.inwxTools, RegisterTool)
       IN IF i = 0
          THEN Throw(s1, "domain_register", NotFoundError(RegisterTool))
          ELSE Invoke(s1, "inwx", i, RegisterTool, RegisterParams(s), "await_register")
  ELSE IF Truthy(s.params.skipRegistration)
  THEN Step3Nameservers(
         SetCreated(Push(s, [step |-> "domain_register", status |-> "skipped",
                             data |-> [reason |-> "skipRegistration=true"]]),
                    "domainRegistered", FALSE))
  ELSE Step3Nameservers(
         SetCreated(Push(s, [step |-> "domain_register", status |-> "skipped",
                             data |-> [reason |-> "domain not available"]]),
                    "domainRegistered", FALSE))

\* Faulty variant of Step2Register: registration is attempted whenever it is
\* not skipped explicitly, whatever the check reported.
Step2RegisterIgnoresAvailability(s) ==
  IF Truthy(s.params.skipRegistration)
  THEN Step3Nameservers(
         SetCreated(Push(s, [step |-> "domain_register", status |-> "skipped",
                             data |-> [reason |-> "skipRegistration=true"]]),
                    "domainRegistered", FALSE))
  ELSE LET s1 == Lookup(s, "inwx", RegisterTool)
           i == findTool(s.inwxTools, RegisterTool)
       IN IF i = 0
          THEN Throw(s1, "domain_register", NotFoundError(RegisterTool))
          ELSE Invoke(s1, "inwx", i, RegisterTool, RegisterParams(s), "await_register")

Step2Register(s) ==
  IF Truthy(s.params.skipRegistration)
  THEN Step3Nameservers(
         SetCreated(Push(s, [step |-> "domain_register", status |-> "skipped",
                             data |-> [reason |-> "skipRegistration=true"]]),
                    "domainRegistered", FALSE))
  ELSE IF s.domainAvailable
  THEN LET s1 == Lookup(s, "inwx", RegisterTool)
           i == findTool(s.inwxTools, RegisterTool)
       IN IF i = 0
          THEN Throw(s1, "domain_register", NotFoundError(RegisterTool))
          ELSE Invoke(s1, "inwx", i, RegisterTool, RegisterParams(s), "await_register")
  ELSE Step3Nameservers(
         SetCreated(Push(s, [step |-> "domain_register", status |-> "skipped",
                             data |-> [reason |-> "domain not available"]]),
                    "domainRegistered", FALSE))

RegisterResolved(s, regResult) ==
  Step3Nameservers(
    SetCreated(Push(s, [step |-> "domain_register", status |-> "ok", data |-> regResult]),
               "domainRegistered", TRUE))

\* Faulty variant of RegisterRejected: the error is recorded but the workflow goes on.
RegisterRejectedContinues(s, err) ==
  Step3Nameservers(
    Push([s EXCEPT !.thrown = Append(@, err)],
         [step |-> "domain_register", status |-> "error", error |-> errorMessage(err)]))

\* Faulty variant of RegisterRejected: a failed registration is tried once more.
RegisterRejectedRetries(s, err) ==
  IF Len(SelectSeq(s.calls, LAMBDA c : c.name = RegisterTool)) < 2
  THEN Invoke([s EXCEPT !.thrown = Append(@, err)], "inwx",
              findTool(s.inwxTools, RegisterTool), RegisterTool, RegisterParams(s),
              "await_register")
  ELSE Throw(s, "domain_register", err)

RegisterRejected(s, err) == Throw(s, "domain_register", err)

\* -------------------------------------------------------------- stage 1

\* Faulty variant of Step1Check: the availability check is left out when the
\* caller asked to skip registration.
Step1CheckUnlessSkipping(s) ==
  IF Truthy(s.params.skipRegistration)
  THEN Step3Nameservers(
         SetCreated(Push(s, [step |-> "domain_register", status |-> "skipped",
                             data |-> [reason |-> "skipRegistration=true"]]),
                    "domainRegistered", FALSE))
  ELSE LET s1 == Lookup(s, "inwx", CheckTool)
           i == findTool(s.inwxTools, CheckTool)
       IN IF i = 0
          THEN Throw(s1, "domain_check", NotFoundError(CheckTool))
          ELSE Invoke(s1, "inwx", i, CheckTool, [domain |-> s.domain], "await_check")

Step1Check(s) ==
  LET s1 == Lookup(s, "inwx", CheckTool)
      i == findTool(s.inwxTools, CheckTool)
  IN IF i = 0
     THEN Throw(s1, "domain_check", NotFoundError(CheckTool))
     ELSE Invoke(s1, "inwx", i, CheckTool, [domain |-> s.domain], "await_check")

\* Array.isArray(raw) ? raw[0] : raw
CheckRecord(raw) ==
  IF raw.t = "arr" THEN (IF Len(raw.a) > 0 THEN raw.a[1] ELSE JUndef) ELSE raw

\* Faulty variant of DomainAvailable: the sequence shape is not unwrapped.
DomainAvailableNoArray(raw) == Truthy(GetProp(raw, "avail"))

\* Boolean(checkResult?.avail)
DomainAvailable(raw) == Truthy(GetProp(CheckRecord(raw), "avail"))

\* Faulty variant of CheckResolved: checkResult.avail is read without optional
\* chaining, so a null or missing record raises a TypeError inside the try.
CheckResolvedNoChaining(s, raw) ==
  IF CheckRecord(raw).t \in {"null", "undefined"}
  THEN Throw(s, "domain_check", JError("Cannot read properties of null"))
  ELSE LET avail == DomainAvailable(raw)
           s1 == [s EXCEPT !.domainAvailable = avail]
       IN Step2Register(Push(s1, [step |-> "domain_check", status |-> "ok",
                                  data |-> [domain |-> s.domain, available |-> avail]]))

CheckResolved(s, raw) ==
  LET avail == DomainAvailable(raw)
      s1 == [s EXCEPT !.domainAvailable = avail]
  IN Step2Register(Push(s1, [step |-> "domain_check", status |-> "ok",
                             data |-> [domain |-> s.domain, available |-> avail]]))

CheckRejected(s, err) == Throw(s, "domain_check", err)

\* ------------------------------------------------------------ the call

\* The synchronous prefix of provisionDomainWithHosting, up to its first await
\* or return.
\* Faulty variant of Start: isp_provision_site is resolved up front, before
\* stage 1.
StartResolvesEagerly(inwxTools, ispTools, params) ==
  LET s0 == [IdleRun EXCEPT !.inwxTools = inwxTools, !.ispTools = ispTools,
                            !.params = params, !.domain = Trim(params.domain)]
  IN IF s0.domain = <<>>
     THEN [s0 EXCEPT !.pc = "done",
                     !.result = [ok |-> FALSE, domain |-> <<>>,
                                 steps |-> <<[step |-> "validate", status |-> "error",
                                              error |-> "domain is required"]>>,
                                 created |-> s0.created]]
     ELSE IF findTool(ispTools, ProvisionTool) = 0
     THEN Throw(Lookup(s0, "isp", ProvisionTool), "isp_provision",
                NotFoundError(ProvisionTool))
     ELSE Step1Check(s0)

Start(inwxTools, ispTools, params) ==
  LET s0 == [IdleRun EXCEPT !.inwxTools = inwxTools, !.ispTools = ispTools,
                            !.params = params, !.domain = Trim(params.domain)]
  IN IF s0.domain = <<>>
     THEN [s0 EXCEPT !.pc = "done",
                     !.result = [ok |-> FALSE, domain |-> <<>>,
                                 steps |-> <<[step |-> "validate", status |-> "error",
                                              error |-> "domain is required"]>>,
                                 created |-> s0.created]]
     ELSE Step1Check(s0)

\* -------------------------------------------------------------- inputs

\* A registry is a sequence of tools; only a tool's name matters to the lookup,
\* its behaviour is chosen when the awaited call settles.
Tool(name) == [name |-> name]

\* Every registrar registry made of an unrelated tool followed by any subset of
\* the three required ones, and the empty registry.
InwxToolsets ==
  {<<>>} \cup
  {<<Tool("inwx_domain_list")>>
     \o (IF c THEN <<Tool(CheckTool)>> ELSE <<>>)
     \o (IF g THEN <<Tool(RegisterTool)>> ELSE <<>>)
     \o (IF n THEN <<Tool(NameserverTool)>> ELSE <<>>) : c, g, n \in BOOLEAN}

IspToolsets == {<<>>, <<Tool(ProvisionTool)>>}

FullInwx == <<Tool(CheckTool), Tool(RegisterTool), Tool(NameserverTool)>>
FullIsp == <<Tool(ProvisionTool)>>

Domains ==
  {<<>>, <<" ", "\t">>, <<"a", ".", "d", "e">>, <<" ", "a", ".", "d", "e", "\n">>,
   <<"a", " ", "b">>}

NsName(i) == "ns" \o ToString(i) \o ".hosting.de"
NsLists == {[i \in 1..n |-> NsName(i)] : n \in 0..MaxNs}

Flags == {JUndef, JBool(TRUE), JBool(FALSE)}

BaseParams ==
  [domain |-> <<"a", ".", "d", "e">>, nameservers |-> [i \in 1..MaxNs |-> NsName(i)],
   serverIp |-> "1.2.3.4", clientName |-> "Acme Corp", clientEmail |-> "admin@acme.com",
   createMail |-> JUndef, createDb |-> JUndef, serverId |-> JUndef,
   registrationPeriod |-> JUndef, contacts |-> JUndef, skipRegistration |-> JUndef]

\* Parameter sets varying what decides the control flow.
CoreParams ==
  {[BaseParams EXCEPT !.domain = d, !.nameservers = ns, !.skipRegistration = k] :
     d \in Domains, ns \in NsLists, k \in Flags}

\* Parameter sets varying the optional fields passed on to the tools.
OptParams ==
  {[BaseParams EXCEPT !.createMail = m, !.createDb = b, !.serverId = i,
                      !.registrationPeriod = y, !.contacts = c] :
     m \in {JUndef, JBool(FALSE)}, b \in {JUndef, JBool(FALSE)},
     i \in {JUndef, JNull, JNum(0), JNum(2)},
     y \in {JUndef, JNum(0), JNum(2)},
     c \in {JUndef, JObj([registrant |-> JNum(123)])}}

CallInputs ==
  (InwxToolsets \X IspToolsets \X CoreParams) \cup ({FullInwx} \X {FullIsp} \X OptParams)

\* What inwx_domain_check may return.
CheckRaws ==
  {JArr(<<JObj([avail |-> JBool(TRUE)])>>), JArr(<<JObj([avail |-> JBool(FALSE)])>>),
   JObj([avail |-> JBool(TRUE)]), JObj([avail |-> JBool(FALSE)]),
   JObj([domain |-> JStr("a.de")]), JArr(<<>>), JNull}

\* What the other tools may return (opaque to the workflow).
ToolResults == {JObj([ok |-> JBool(TRUE)]), JUndef}

\* What a tool may throw: an Error, or a value that is not an Error.
ToolErrors == {JError("API timeout"), JStr("boom")}

Returned(v) == [kind |-> "return", value |-> v]
Threw(e) == [kind |-> "throw", error |-> e]

\* ----------------------------------------------------- permission guard

\* The registrar operations the guard is exercised with, and their read/write
\* classification as supplied by the registry builder.
GuardOps ==
  {CheckTool, "inwx_account_info", RegisterTool, NameserverTool}

WriteOps == {RegisterTool, NameserverTool}

\* { readOnly, allowedOperations }
Policy(readOnly, allowed) == [readOnly |-> readOnly, allowedOperations |-> allowed]

\* readOnly: false, allowedOperations: []
OpenPolicy == Policy(FALSE, {})

\* The error a rejected call fails with; it identifies operation and rule.
PolicyViolation(name, rule) ==
  [t |-> "Error", message |-> "Operation " \o name \o " blocked by " \o rule,
   operation |-> name, rule |-> rule]

\* Faulty variant of GuardCheck: the allow-list is consulted before readOnly.
GuardCheckAllowListFirst(policy, name) ==
  IF policy.allowedOperations # {} /\ name \notin policy.allowedOperations
  THEN "allowedOperations"
  ELSE IF policy.readOnly /\ name \in WriteOps THEN "readOnly"
  ELSE "allow"

\* Faulty variant of GuardCheck: the allow-list restricts write operations only.
GuardCheckListsWritesOnly(policy, name) ==
  IF policy.readOnly /\ name \in WriteOps THEN "readOnly"
  ELSE IF policy.allowedOperations # {} /\ name \notin policy.allowedOperations
          /\ name \in WriteOps
  THEN "allowedOperations"
  ELSE "allow"

\* The guard's decision for one call: "allow", or the rule that forbids it.
GuardCheck(policy, name) ==
  IF policy.readOnly /\ name \in WriteOps THEN "readOnly"
  ELSE IF policy.allowedOperations # {} /\ name \notin policy.allowedOperations
  THEN "allowedOperations"
  ELSE "allow"

\* The guard of a registry built with `policy`: the policy, the guarded calls
\* made so far (log) and the invocations that reached the underlying
\* operations (remote).
NewGuard(policy) == [policy |-> policy, log |-> <<>>, remote |-> <<>>]

\* Faulty variant of Enforce: once a call has been refused, the refusal is
\* remembered and returned for every later call.
EnforceLatched(g, name) ==
  IF \E i \in DOMAIN g.log : g.log[i].state = "rejected"
  THEN (CHOOSE e \in {g.log[i] : i \in DOMAIN g.log} : e.state = "rejected").result.error.rule
  ELSE IF g.policy.readOnly /\ name \in WriteOps THEN "readOnly"
  ELSE IF g.policy.allowedOperations # {} /\ name \notin g.policy.allowedOperations
  THEN "allowedOperations"
  ELSE "allow"

\* The decision for a call arriving at guard g.
Enforce(g, name) == GuardCheck(g.policy, name)

\* The call is refused before anything is invoked.
Refuse(g, name, params, rule) ==
  [g EXCEPT !.log = Append(@, [name |-> name, params |-> params, state |-> "rejected",
                               result |-> Threw(PolicyViolation(name, rule))])]

\* Faulty variant of Forward: the underlying operation is invoked twice.
ForwardTwice(g, name, params) ==
  [g EXCEPT !.log = Append(@, [name |-> name, params |-> params, state |-> "pending",
                               result |-> JUndef]),
            !.remote = @ \o <<[call |-> Len(g.log) + 1, name |-> name,
                               params |-> params, outcome |-> JUndef],
                              [call |-> Len(g.log) + 1, name |-> name,
                               params |-> params, outcome |-> JUndef]>>]

\* The call is forwarded unchanged to the underlying operation.
Forward(g, name, params) ==
  [g EXCEPT !.log = Append(@, [name |-> name, params |-> params, state |-> "pending",
                               result |-> JUndef]),
            !.remote = Append(@, [call |-> Len(g.log) + 1, name |-> name,
                                  params |-> params, outcome |-> JUndef])]

\* A guarded operation is called.
GuardedRun(g, name, params) ==
  LET d == Enforce(g, name)
  IN IF d = "allow" THEN Forward(g, name, params) ELSE Refuse(g, name, params, d)

\* Index in g.remote of the underlying invocation made for guarded call i.
RemoteOf(g, i) == CHOOSE k \in DOMAIN g.remote : g.remote[k].call = i

\* What the guarded call yields when the underlying operation settles with o.
Yield(o) == o

\* The underlying operation of guarded call i settles with outcome o.
UnderlyingSettled(g, i, o) ==
  [g EXCEPT !.remote[RemoteOf(g, i)].outcome = o,
            !.log[i].state = "settled",
            !.log[i].result = Yield(o)]

\* ------------------------------------------------------------- actions

\* Faulty variant of Update: steps and created are kept at module level, so
\* every invocation in flight sees what run r has written.
UpdateSharedLedger(r, s) ==
  [q \in Runs |->
     IF q = r THEN s
     ELSE IF runs[q].pc \in {"await_check", "await_register", "await_nameserver",
                             "await_provision"}
     THEN [runs[q] EXCEPT !.steps = s.steps, !.created = s.created]
     ELSE runs[q]]

\* The run's locals (steps, created, domain, domainAvailable) are declared
\* inside the function: what a step of run r computes is written to run r alone.
Update(r, s) == [runs EXCEPT ![r] = s]

Init ==
  /\ runs = [r \in Runs |-> IdleRun]
  /\ guard = NewGuard(OpenPolicy)

\* provisionDomainWithHosting(inwxTools, ispTools, params) is called.
Call(r, in) ==
  /\ runs[r].pc = "idle"
  /\ runs' = Update(r, Start(in[1], in[2], in[3]))
  /\ UNCHANGED guard

CheckReturns(r) ==
  /\ runs[r].pc = "await_check"
  /\ \E raw \in CheckRaws :
       runs' = Update(r, CheckResolved(Settled(runs[r], CheckTool, Returned(raw)), raw))
  /\ UNCHANGED guard

CheckThrows(r) ==
  /\ runs[r].pc = "await_check"
  /\ \E e \in ToolErrors :
       runs' = Update(r, CheckRejected(Settled(runs[r], CheckTool, Threw(e)), e))
  /\ UNCHANGED guard

RegisterReturns(r) ==
  /\ runs[r].pc = "await_register"
  /\ \E v \in ToolResults :
       runs' = Update(r, RegisterResolved(Settled(runs[r], RegisterTool, Returned(v)), v))
  /\ UNCHANGED guard

RegisterThrows(r) ==
  /\ runs[r].pc = "await_register"
  /\ \E e \in ToolErrors :
       runs' = Update(r, RegisterRejected(Settled(runs[r], RegisterTool, Threw(e)), e))
  /\ UNCHANGED guard

NameserverReturns(r) ==
  /\ runs[r].pc = "await_nameserver"
  /\ \E v \in ToolResults :
       runs' = Update(r, NameserverResolved(Settled(runs[r], NameserverTool, Returned(v)), v))
  /\ UNCHANGED guard

NameserverThrows(r) ==
  /\ runs[r].pc = "await_nameserver"
  /\ \E e \in ToolErrors :
       runs' = Update(r, NameserverRejected(Settled(runs[r], NameserverTool, Threw(e)), e))
  /\ UNCHANGED guard

ProvisionReturns(r) ==
  /\ runs[r].pc = "await_provision"
  /\ \E v \in ToolResults :
       runs' = Update(r, ProvisionResolved(Settled(runs[r], ProvisionTool, Returned(v)), v))
  /\ UNCHANGED guard

ProvisionThrows(r) ==
  /\ runs[r].pc = "await_provision"
  /\ \E e \in ToolErrors :
       runs' = Update(r, ProvisionRejected(Settled(runs[r], ProvisionTool, Threw(e)), e))
  /\ UNCHANGED guard

Next ==
  \E r \in SeqRuns :
    \/ \E in \in CallInputs : Call(r, in)
    \/ CheckReturns(r)
    \/ CheckThrows(r)
    \/ RegisterReturns(r)
    \/ RegisterThrows(r)
    \/ NameserverReturns(r)
    \/ NameserverThrows(r)
    \/ ProvisionReturns(r)
    \/ ProvisionThrows(r)

Spec == Init /\ [][Next]_vars

\* ------------------------------------------- calls to guarded operations

\* Guarded calls made to one registry.
MaxCalls == 2

AllowLists == {{}, {"inwx_account_info"}, {CheckTool, RegisterTool}}

Policies == {Policy(ro, al) : ro \in BOOLEAN, al \in AllowLists}

GuardParams == {[domain |-> <<"a", ".", "d", "e">>], [domain |-> <<"b", ".", "d", "e">>]}

\* buildToolset(config): the registry is built with one of the policies.
InitGuard ==
  /\ runs = [r \in Runs |-> IdleRun]
  /\ guard \in {NewGuard(p) : p \in Policies}

GuardCall(name, params) ==
  /\ Len(guard.log) < MaxCalls
  /\ guard' = GuardedRun(guard, name, params)
  /\ UNCHANGED runs

UnderlyingReturns(i) ==
  /\ i \in DOMAIN guard.log
  /\ guard.log[i].state = "pending"
  /\ \E v \in ToolResults : guard' = UnderlyingSettled(guard, i, Returned(v))
  /\ UNCHANGED runs

UnderlyingThrows(i) ==
  /\ i \in DOMAIN guard.log
  /\ guard.log[i].state = "pending"
  /\ \E e \in ToolErrors : guard' = UnderlyingSettled(guard, i, Threw(e))
  /\ UNCHANGED runs

NextGuard ==
  \/ \E name \in GuardOps, params \in GuardParams : GuardCall(name, params)
  \/ \E i \in 1..MaxCalls : UnderlyingReturns(i)
  \/ \E i \in 1..MaxCalls : UnderlyingThrows(i)

SpecGuard == InitGuard /\ [][NextGuard]_vars

\* The operation run r awaits settles, one way or the other.
Settle(r) ==
  \/ CheckReturns(r)
  \/ CheckThrows(r)
  \/ RegisterReturns(r)
  \/ RegisterThrows(r)
  \/ NameserverReturns(r)
  \/ NameserverThrows(r)
  \/ ProvisionReturns(r)
  \/ ProvisionThrows(r)

\* Every operation the workflow invokes eventually settles.
SpecFair == Spec /\ \A r \in SeqRuns : WF_vars(Settle(r))

\* ---------------------------------------------- interleaved invocations

\* The same registrar operations in another registry layout.
PaddedInwx ==
  <<Tool("inwx_domain_list"), Tool(CheckTool), Tool(RegisterTool), Tool(NameserverTool)>>

\* Inputs of the interleaved invocations: two parameter sets with different
\* domains, over two registry layouts.
ConcParams ==
  {BaseParams,
   [BaseParams EXCEPT !.domain = <<"b", ".", "d", "e">>, !.nameservers = <<>>,
                      !.skipRegistration = JBool(TRUE)]}

ConcInputs == {FullInwx, PaddedInwx} \X {FullIsp} \X ConcParams

\* The responses the interleaved invocations are exercised with.
ConcOutcomes ==
  {Returned(JArr(<<JObj([avail |-> JBool(TRUE)])>>)),
   Returned(JArr(<<JObj([avail |-> JBool(FALSE)])>>)),
   Returned(JObj([ok |-> JBool(TRUE)])),
   Threw(JError("API timeout"))}

ConcResponses(s) == \A i \in DOMAIN s.responses : s.responses[i].outcome \in ConcOutcomes

\* Any number of invocations proceed, interleaved at their await points.
NextConc ==
  \E r \in Runs :
    /\ \/ \E in \in ConcInputs : Call(r, in)
       \/ CheckReturns(r)
       \/ CheckThrows(r)
       \/ RegisterReturns(r)
       \/ RegisterThrows(r)
       \/ NameserverReturns(r)
       \/ NameserverThrows(r)
       \/ ProvisionReturns(r)
       \/ ProvisionThrows(r)
    /\ ConcResponses(runs'[r])

SpecConc == Init /\ [][NextConc]_vars

\* ------------------------------------------------ vocabulary of the claims

Awaiting == {"await_check", "await_register", "await_nameserver", "await_provision"}

Last(seq) == seq[Len(seq)]

\* The tool `name` has been invoked in run s.
Invoked(s, name) == \E i \in DOMAIN s.calls : s.calls[i].name = name

\* findTool has been asked for `name` in run s.
LookedUp(s, name) == \E i \in DOMAIN s.lookups : s.lookups[i].name = name

\* The registry holds an operation called `name`.
Has(tools, name) == \E i \in DOMAIN tools : tools[i].name = name

\* The awaited call of `name` has thrown in run s.
HasThrown(s, name) ==
  \E i \in DOMAIN s.responses :
    s.responses[i].name = name /\ s.responses[i].outcome.kind = "throw"

\* The value `name` threw in run s.
ThrownBy(s, name) ==
  (CHOOSE x \in {s.responses[i] : i \in DOMAIN s.responses} :
     x.name = name /\ x.outcome.kind = "throw").outcome.error

NoneThrew(s) == \A i \in DOMAIN s.responses : s.responses[i].outcome.kind = "return"

\* The message text a thrown value carries.
ThrownText(e) == IF e.t = "Error" THEN e.message ELSE e.s

\* The availability check has returned (not thrown) in run s.
CheckReturned(s) ==
  Len(s.responses) >= 1 /\ s.responses[1].name = CheckTool
    /\ s.responses[1].outcome.kind = "return"

CheckRaw(s) == s.responses[1].outcome.value

IsAvailRecord(v) == v.t = "obj" /\ "avail" \in DOMAIN v.f /\ v.f.avail = JBool(TRUE)

\* The check's answer says "available": the only record, or the first of a
\* sequence of records, has its availability field true.
ReportsAvailable(raw) ==
  \/ IsAvailRecord(raw)
  \/ raw.t = "arr" /\ Len(raw.a) > 0 /\ IsAvailRecord(raw.a[1])

SkipRequested(s) == s.params.skipRegistration = JBool(TRUE)

AllWhitespace(d) == \A i \in DOMAIN d : d[i] \in Whitespace

StepNames(steps) == [i \in DOMAIN steps |-> steps[i].step]
Statuses(steps) == [i \in DOMAIN steps |-> steps[i].status]

NotFoundText(name) == "Required tool \"" \o name \o "\" not found in provided toolset"

\* ----------------------------------------------------------------- claims

\* C1: provisionDomainWithHosting never rejects.  Whatever the domain, the
\* nameserver list, skipRegistration and the behaviour of the four operations
\* (absent, returning, throwing), a run is only ever idle, suspended on an
\* operation it has invoked, or completed with a ProvisioningResult; and when
\* an exception was raised during the run the result has ok = false and its
\* ledger ends with an 'error' step.
C1_NeverRejects ==
  \A r \in Runs :
    LET s == runs[r] IN
      /\ s.pc \in {"idle", "done"} \cup Awaiting
      /\ s.pc \in Awaiting => Len(s.calls) = Len(s.responses) + 1
      /\ s.pc = "done" =>
           /\ DOMAIN s.result = {"ok", "domain", "steps", "created"}
           /\ s.result.ok \in BOOLEAN
           /\ Len(s.result.steps) >= 1
           /\ Len(s.calls) = Len(s.responses)
           /\ s.thrown # <<>> =>
                /\ ~s.result.ok
                /\ Last(s.result.steps).status = "error"

\* A run in which an operation threw has completed with a result.
C1_Witness ==
  \E r \in Runs :
    /\ runs[r].pc = "done"
    /\ HasThrown(runs[r], NameserverTool)
    /\ ~runs[r].result.ok

\* C2: in every returned result, ok is true if and only if no step of the
\* ledger has status 'error'; 'skipped' steps never make ok false.
C2_OkIffNoError ==
  \A r \in Runs :
    runs[r].pc = "done" =>
      LET res == runs[r].result IN
        res.ok <=> (\A i \in DOMAIN res.steps : res.steps[i].status # "error")

\* A result with ok = true whose ledger holds two skipped steps.
C2_Witness ==
  \E r \in Runs :
    /\ runs[r].pc = "done"
    /\ Statuses(runs[r].result.steps) = <<"ok", "skipped", "skipped", "ok">>
    /\ runs[r].result.ok

\* C3: with a non-empty domain, non-empty nameservers, skipRegistration not
\* set, all four operations present and none of them throwing, and a check
\* that reports available, the completed run has ok = true and exactly the
\* four steps domain_check, domain_register, nameserver_set, isp_provision,
\* in this order, all 'ok'.
C3_HappyPath ==
  \A r \in Runs :
    LET s == runs[r] IN
      ( /\ s.pc = "done"
        /\ s.params.domain # <<>>
        /\ s.params.nameservers # <<>>
        /\ ~SkipRequested(s)
        /\ Has(s.inwxTools, CheckTool) /\ Has(s.inwxTools, RegisterTool)
        /\ Has(s.inwxTools, NameserverTool) /\ Has(s.ispTools, ProvisionTool)
        /\ CheckReturned(s) /\ ReportsAvailable(CheckRaw(s))
        /\ NoneThrew(s) )
      =>
      ( /\ s.result.ok
        /\ StepNames(s.result.steps) =
             <<"domain_check", "domain_register", "nameserver_set", "isp_provision">>
        /\ Statuses(s.result.steps) = <<"ok", "ok", "ok", "ok">>
        /\ [i \in DOMAIN s.calls |-> s.calls[i].name] =
             <<CheckTool, RegisterTool, NameserverTool, ProvisionTool>> )

\* A completed happy-path run whose check answered with a sequence of records.
C3_Witness ==
  \E r \in Runs :
    LET s == runs[r] IN
      /\ s.pc = "done"
      /\ s.params.nameservers # <<>>
      /\ ~SkipRequested(s)
      /\ CheckReturned(s) /\ CheckRaw(s).t = "arr" /\ ReportsAvailable(CheckRaw(s))
      /\ NoneThrew(s)
      /\ Len(s.responses) = 4
      /\ s.result.ok

\* C4: a run whose domain is empty after trimming whitespace returns at once
\* with ok = false, the single step (validate, error), an empty created
\* record, and without looking up or invoking any operation; a 'validate'
\* step never shares a ledger with another step.
C4_EmptyDomain ==
  \A r \in Runs :
    LET s == runs[r] IN
      /\ (s.pc # "idle" /\ AllWhitespace(s.params.domain)) =>
           /\ s.pc = "done"
           /\ ~s.result.ok
           /\ s.result.steps =
                <<[step |-> "validate", status |-> "error", error |-> "domain is required"]>>
           /\ DOMAIN s.result.created = {}
           /\ s.lookups = <<>>
           /\ s.calls = <<>>
      /\ s.pc = "done" =>
           \A i \in DOMAIN s.result.steps :
             s.result.steps[i].step = "validate" => Len(s.result.steps) = 1

\* A whitespace-only domain was submitted with both registries populated.
C4_Witness ==
  \E r \in Runs :
    LET s == runs[r] IN
      /\ s.pc = "done"
      /\ s.params.domain # <<>> /\ AllWhitespace(s.params.domain)
      /\ Has(s.inwxTools, CheckTool) /\ Has(s.ispTools, ProvisionTool)
      /\ StepNames(s.result.steps) = <<"validate">>

SkippedUnavailable ==
  [step |-> "domain_register", status |-> "skipped",
   data |-> [reason |-> "domain not available"]]

SkippedExplicit ==
  [step |-> "domain_register", status |-> "skipped",
   data |-> [reason |-> "skipRegistration=true"]]

SkippedNoNameservers ==
  [step |-> "nameserver_set", status |-> "skipped",
   data |-> [reason |-> "no nameservers provided"]]

\* The check has answered "not available" and the caller did not ask to skip.
UnavailableNotSkipped(s) ==
  /\ s.pc # "idle"
  /\ CheckReturned(s) /\ ~ReportsAvailable(CheckRaw(s))
  /\ ~SkipRequested(s)

\* C5 as stated: whenever the check reports unavailable and skipRegistration is
\* not requested, the completed run has registration 'skipped' (domain not
\* available) and has invoked isp_provision_site.
C5_AsStated ==
  \A r \in Runs :
    LET s == runs[r] IN
      (UnavailableNotSkipped(s) /\ s.pc = "done") =>
        /\ s.steps[2] = SkippedUnavailable
        /\ Invoked(s, ProvisionTool)

\* C5 amended: whenever the check reports unavailable and skipRegistration is
\* not requested, registration is 'skipped' (domain not available) without
\* inwx_domain_register being looked up or invoked, and the run goes on to the
\* nameserver stage; isp_provision_site is invoked unless the nameserver stage
\* fails or isp_provision_site is missing from the hosting registry.
C5_UnavailableContinues ==
  \A r \in Runs :
    LET s == runs[r] IN
      UnavailableNotSkipped(s) =>
        /\ Len(s.steps) >= 2 /\ s.steps[2] = SkippedUnavailable
        /\ ~Invoked(s, RegisterTool) /\ ~LookedUp(s, RegisterTool)
        /\ \/ Invoked(s, ProvisionTool)
           \/ s.pc = "await_nameserver"
           \/ /\ s.pc = "done"
              /\ Last(s.steps).status = "error"
              /\ \/ Last(s.steps).step = "nameserver_set"
                 \/ /\ Last(s.steps).step = "isp_provision"
                    /\ ~Has(s.ispTools, ProvisionTool)

\* The check reported unavailable, nameservers were set, hosting was invoked.
C5_Witness ==
  \E r \in Runs :
    LET s == runs[r] IN
      /\ UnavailableNotSkipped(s)
      /\ CheckRaw(s) = JArr(<<JObj([avail |-> JBool(FALSE)])>>)
      /\ s.steps[2] = SkippedUnavailable
      /\ Invoked(s, NameserverTool)
      /\ Invoked(s, ProvisionTool)

\* C6: with skipRegistration = true, every domain_register step of the ledger
\* is 'skipped' with the explicit-skip reason, whatever the check reported, and
\* inwx_domain_register is never invoked.
C6_ExplicitSkip ==
  \A r \in Runs :
    LET s == runs[r] IN
      (s.pc # "idle" /\ SkipRequested(s)) =>
        /\ \A i \in DOMAIN s.steps :
             s.steps[i].step = "domain_register" => s.steps[i] = SkippedExplicit
        /\ CheckReturned(s) => (Len(s.steps) >= 2 /\ s.steps[2] = SkippedExplicit)
        /\ ~Invoked(s, RegisterTool)
        /\ s.pc # "await_register"

\* Registration was skipped on request although the check reported available.
C6_Witness ==
  \E r \in Runs :
    LET s == runs[r] IN
      /\ s.pc = "done"
      /\ SkipRequested(s)
      /\ CheckReturned(s) /\ ReportsAvailable(CheckRaw(s))
      /\ s.result.steps[2] = SkippedExplicit

CheckNotFoundLedger ==
  <<[step |-> "domain_check", status |-> "error", error |-> NotFoundText(CheckTool)]>>

\* C7 as stated: whenever inwx_domain_check is absent from the registrar
\* registry, the result is ok = false with the single step (domain_check,
\* error) naming the missing operation, and nothing is invoked.
C7_AsStated ==
  \A r \in Runs :
    LET s == runs[r] IN
      (s.pc # "idle" /\ ~Has(s.inwxTools, CheckTool)) =>
        /\ s.pc = "done"
        /\ ~s.result.ok
        /\ s.result.steps = CheckNotFoundLedger
        /\ s.calls = <<>>

\* C7 amended: whenever the domain is non-empty after trimming and
\* inwx_domain_check is absent from the registrar registry, the result is
\* ok = false with the single step (domain_check, error) whose message names
\* the missing operation, and no operation of either registry is invoked.
C7_CheckToolMissing ==
  \A r \in Runs :
    LET s == runs[r] IN
      (s.pc # "idle" /\ ~AllWhitespace(s.params.domain) /\ ~Has(s.inwxTools, CheckTool)) =>
        /\ s.pc = "done"
        /\ ~s.result.ok
        /\ s.result.steps = CheckNotFoundLedger
        /\ s.calls = <<>>

\* A valid domain was submitted to a registry that holds other operations but
\* not inwx_domain_check.
C7_Witness ==
  \E r \in Runs :
    LET s == runs[r] IN
      /\ s.pc = "done"
      /\ ~AllWhitespace(s.params.domain)
      /\ ~Has(s.inwxTools, CheckTool)
      /\ Has(s.inwxTools, RegisterTool) /\ Has(s.ispTools, ProvisionTool)
      /\ s.result.steps = CheckNotFoundLedger

\* C8: if inwx_domain_register throws, the result is ok = false, the ledger is
\* exactly [domain_check ok, domain_register error] with the error step
\* carrying the thrown message, and neither inwx_nameserver_set nor
\* isp_provision_site is invoked.
C8_RegisterThrows ==
  \A r \in Runs :
    LET s == runs[r] IN
      HasThrown(s, RegisterTool) =>
        /\ s.pc = "done"
        /\ ~s.result.ok
        /\ Len(s.result.steps) = 2
        /\ s.result.steps[1].step = "domain_check" /\ s.result.steps[1].status = "ok"
        /\ s.result.steps[2] =
             [step |-> "domain_register", status |-> "error",
              error |-> ThrownText(ThrownBy(s, RegisterTool))]
        /\ ~Invoked(s, NameserverTool) /\ ~Invoked(s, ProvisionTool)

\* Registration threw an Error in a run with nameservers to set.
C8_Witness ==
  \E r \in Runs :
    LET s == runs[r] IN
      /\ HasThrown(s, RegisterTool)
      /\ ThrownBy(s, RegisterTool) = JError("API timeout")
      /\ s.params.nameservers # <<>>
      /\ s.pc = "done"

\* The run has recorded a registration outcome that did not abort it.
PastRegistration(s) == Len(s.steps) >= 2 /\ s.steps[2].status # "error"

\* C9 as stated: with an empty nameserver list, every run that gets past the
\* registration stage has nameserver_set 'skipped', has not invoked
\* inwx_nameserver_set, and has invoked isp_provision_site.
C9_AsStated ==
  \A r \in Runs :
    LET s == runs[r] IN
      (s.pc # "idle" /\ s.params.nameservers = <<>> /\ PastRegistration(s)) =>
        /\ s.steps[3] = SkippedNoNameservers
        /\ ~Invoked(s, NameserverTool)
        /\ Invoked(s, ProvisionTool)

\* C9 amended: with an empty nameserver list, every run that gets past the
\* registration stage has nameserver_set 'skipped' (no nameservers provided),
\* has neither looked up nor invoked inwx_nameserver_set, and has proceeded to
\* the hosting stage: isp_provision_site is invoked when the hosting registry
\* holds it, and otherwise the run ends with (isp_provision, error) naming it.
C9_NoNameservers ==
  \A r \in Runs :
    LET s == runs[r] IN
      (s.pc # "idle" /\ s.params.nameservers = <<>> /\ PastRegistration(s)) =>
        /\ Len(s.steps) >= 3 /\ s.steps[3] = SkippedNoNameservers
        /\ ~Invoked(s, NameserverTool) /\ ~LookedUp(s, NameserverTool)
        /\ LookedUp(s, ProvisionTool)
        /\ Has(s.ispTools, ProvisionTool) => Invoked(s, ProvisionTool)
        /\ ~Has(s.ispTools, ProvisionTool) =>
             /\ s.pc = "done"
             /\ Last(s.steps) = [step |-> "isp_provision", status |-> "error",
                                 error |-> NotFoundText(ProvisionTool)]

\* After a successful registration with no nameservers, hosting was invoked.
C9_Witness ==
  \E r \in Runs :
    LET s == runs[r] IN
      /\ s.pc # "idle"
      /\ s.params.nameservers = <<>>
      /\ PastRegistration(s) /\ s.steps[2].status = "ok"
      /\ s.steps[3] = SkippedNoNameservers
      /\ s.pc = "await_provision"

\* isp_provision_site settles by throwing in this step of run r.
ProvisionThrowsIn(r) ==
  /\ runs[r].pc = "await_provision"
  /\ runs'[r].pc # "await_provision"
  /\ Last(runs'[r].responses).outcome.kind = "throw"

\* C10: if isp_provision_site throws after the earlier stages completed, the
\* result is ok = false, the last ledger entry is (isp_provision, error),
\* hostingProvisioned is not set, the earlier ledger entries and created flags
\* are exactly what they were before the failure, no operation is invoked to
\* undo them, and the completed run does nothing more.
C10_ProvisionThrows ==
  /\ [][\A r \in Runs :
          /\ ProvisionThrowsIn(r) =>
               /\ runs'[r].pc = "done"
               /\ ~runs'[r].result.ok
               /\ Len(runs'[r].result.steps) = Len(runs[r].steps) + 1
               /\ SubSeq(runs'[r].result.steps, 1, Len(runs[r].steps)) = runs[r].steps
               /\ Last(runs'[r].result.steps).step = "isp_provision"
               /\ Last(runs'[r].result.steps).status = "error"
               /\ runs'[r].result.created = runs[r].created
               /\ runs'[r].calls = runs[r].calls
          /\ runs[r].pc = "done" => runs'[r] = runs[r]]_vars
  /\ [](\A r \in Runs :
          HasThrown(runs[r], ProvisionTool) =>
            /\ "hostingProvisioned" \notin DOMAIN runs[r].result.created
            /\ "ispProvisionResult" \notin DOMAIN runs[r].result.created
            /\ runs[r].steps[2].status = "ok" =>
                 runs[r].result.created["domainRegistered"] = TRUE
            /\ runs[r].steps[3].status = "ok" =>
                 runs[r].result.created["nameserversConfigured"] = TRUE)

\* Hosting threw after the domain was registered and its nameservers set.
C10_Witness ==
  \E r \in Runs :
    LET s == runs[r] IN
      /\ HasThrown(s, ProvisionTool)
      /\ s.pc = "done"
      /\ Statuses(s.result.steps) = <<"ok", "ok", "ok", "error">>
      /\ s.result.created["domainRegistered"] = TRUE
      /\ s.result.created["nameserversConfigured"] = TRUE

\* The four stages, in pipeline order: the operation each resolves, the name of
\* the step it records, and the state in which the run awaits it.
StageTools == <<CheckTool, RegisterTool, NameserverTool, ProvisionTool>>
StageSteps == <<"domain_check", "domain_register", "nameserver_set", "isp_provision">>
StageAwaits == <<"await_check", "await_register", "await_nameserver", "await_provision">>

\* Position of x in the sequence seq (x occurs in it).
IndexIn(seq, x) == CHOOSE k \in DOMAIN seq : seq[k] = x

\* The run has recorded an 'error' step.
HasErrorStep(s) == \E i \in DOMAIN s.steps : s.steps[i].status = "error"

\* C11: fail-fast.  Once a stage has recorded 'error' the run has returned
\* ok = false and never changes again: no operation is invoked and no step is
\* appended afterwards.  Hence every returned ledger holds at most one 'error'
\* step, which is its last entry, and never ends with a 'skipped' step.
C11_FailFast ==
  /\ [](\A r \in Runs :
          LET s == runs[r] IN
            /\ \A i \in DOMAIN s.steps :
                 s.steps[i].status = "error" =>
                   /\ i = Len(s.steps)
                   /\ s.pc = "done"
                   /\ ~s.result.ok
                   /\ s.result.steps = s.steps
            /\ s.pc = "done" =>
                 /\ \A i \in DOMAIN s.result.steps :
                      s.result.steps[i].status = "error" => i = Len(s.result.steps)
                 /\ Last(s.result.steps).status # "skipped")
  /\ [][\A r \in Runs : HasErrorStep(runs[r]) => runs'[r] = runs[r]]_vars

\* A run whose nameserver stage failed after a skipped registration.
C11_Witness ==
  \E r \in Runs :
    /\ runs[r].pc = "done"
    /\ Statuses(runs[r].result.steps) = <<"ok", "skipped", "error">>
    /\ Len(runs[r].calls) = 2

\* C12: the stages of one run execute strictly in sequence.  At most one
\* invocation is in flight, and only while the run is suspended on it; an
\* operation is invoked only when every earlier invocation has settled and
\* the outcomes of all earlier stages are in the ledger; in particular
\* isp_provision_site is invoked only after the registration and nameserver
\* outcomes are recorded.
C12_Sequential ==
  /\ [](\A r \in Runs :
          LET s == runs[r] IN
            /\ Len(s.calls) = Len(s.responses) + (IF s.pc \in Awaiting THEN 1 ELSE 0)
            /\ \A i \in DOMAIN s.responses : s.responses[i].name = s.calls[i].name
            /\ \A i, j \in DOMAIN s.calls :
                 i < j => IndexIn(StageTools, s.calls[i].name) < IndexIn(StageTools, s.calls[j].name)
            /\ s.pc \in Awaiting =>
                 /\ Last(s.calls).name = StageTools[IndexIn(StageAwaits, s.pc)]
                 /\ Len(s.steps) = IndexIn(StageAwaits, s.pc) - 1
            /\ Invoked(s, ProvisionTool) =>
                 /\ Len(s.steps) >= 3
                 /\ s.steps[2].step = "domain_register"
                 /\ s.steps[3].step = "nameserver_set")
  /\ [][\A r \in Runs :
          Len(runs'[r].calls) > Len(runs[r].calls) =>
            /\ Len(runs'[r].calls) = Len(runs[r].calls) + 1
            /\ Len(runs'[r].responses) = Len(runs[r].calls)
            /\ Len(runs'[r].steps) = IndexIn(StageTools, Last(runs'[r].calls).name) - 1]_vars

\* Hosting is in flight after registration and nameserver calls have settled.
C12_Witness ==
  \E r \in Runs :
    LET s == runs[r] IN
      /\ s.pc = "await_provision"
      /\ Len(s.calls) = 4
      /\ Len(s.responses) = 3
      /\ Statuses(s.steps) = <<"ok", "ok", "ok">>

\* C20: in every run whose domain is non-empty after trimming, the step names
\* of the ledger are at every moment a prefix of [domain_check,
\* domain_register, nameserver_set, isp_provision]; the ledger changes only by
\* appending; 'skipped' occurs only on domain_register and nameserver_set; the
\* returned ledger is the accumulated one, and a result with ok = true has all
\* four entries.
C20_LedgerShape ==
  /\ [](\A r \in Runs :
          LET s == runs[r] IN
            (s.pc # "idle" /\ ~AllWhitespace(s.params.domain)) =>
              /\ Len(s.steps) <= Len(StageSteps)
              /\ StepNames(s.steps) = SubSeq(StageSteps, 1, Len(s.steps))
              /\ \A i \in DOMAIN s.steps :
                   s.steps[i].status = "skipped" =>
                     s.steps[i].step \in {"domain_register", "nameserver_set"}
              /\ s.pc = "done" =>
                   /\ s.result.steps = s.steps
                   /\ s.result.ok => Len(s.result.steps) = Len(StageSteps))
  /\ [][\A r \in Runs :
          runs[r].pc # "idle" =>
            /\ Len(runs'[r].steps) >= Len(runs[r].steps)
            /\ SubSeq(runs'[r].steps, 1, Len(runs[r].steps)) = runs[r].steps
            /\ runs[r].pc = "done" => runs'[r].result = runs[r].result]_vars

\* A complete ledger with one skipped stage, returned with ok = true.
C20_Witness ==
  \E r \in Runs :
    LET s == runs[r] IN
      /\ s.pc = "done"
      /\ s.result.ok
      /\ Statuses(s.result.steps) = <<"ok", "ok", "skipped", "ok">>
      /\ StepNames(s.result.steps) = StageSteps

\* What run s becomes when its awaited call settles with outcome o.
ApplyOutcome(s, o) ==
  CASE s.pc = "await_check" ->
         IF o.kind = "return" THEN CheckResolved(Settled(s, CheckTool, o), o.value)
         ELSE CheckRejected(Settled(s, CheckTool, o), o.error)
    [] s.pc = "await_register" ->
         IF o.kind = "return" THEN RegisterResolved(Settled(s, RegisterTool, o), o.value)
         ELSE RegisterRejected(Settled(s, RegisterTool, o), o.error)
    [] s.pc = "await_nameserver" ->
         IF o.kind = "return" THEN NameserverResolved(Settled(s, NameserverTool, o), o.value)
         ELSE NameserverRejected(Settled(s, NameserverTool, o), o.error)
    [] s.pc = "await_provision" ->
         IF o.kind = "return" THEN ProvisionResolved(Settled(s, ProvisionTool, o), o.value)
         ELSE ProvisionRejected(Settled(s, ProvisionTool, o), o.error)
    [] OTHER -> s

RECURSIVE Replay(_, _, _)
Replay(s, responses, i) ==
  IF i > Len(responses) THEN s
  ELSE Replay(ApplyOutcome(s, responses[i].outcome), responses, i + 1)

\* The run with the inputs of s, alone, given the responses s has received.
Solo(s) == Replay(Start(s.inwxTools, s.ispTools, s.params), s.responses, 1)

\* C13: when invocations are interleaved at their await points in any order,
\* each run is at every moment exactly what it would be running alone against
\* the responses it has received: its ledger, its created record, its
\* invocations and its result hold nothing of another run.
C13_Isolation ==
  \A r \in Runs : runs[r].pc # "idle" => runs[r] = Solo(runs[r])

\* Two runs with different domains are both in flight, one of them having
\* been overtaken by the other.
C13_Witness ==
  \E r1, r2 \in Runs :
    /\ r1 # r2
    /\ runs[r1].pc = "await_nameserver"
    /\ runs[r2].pc = "await_provision"
    /\ runs[r1].params.domain # runs[r2].params.domain
    /\ runs[r1].created # runs[r2].created

RequiredOps(s) ==
  {s.inwxTools[i].name : i \in DOMAIN s.inwxTools} \cup
  {s.ispTools[i].name : i \in DOMAIN s.ispTools}

CallNames(s) == [i \in DOMAIN s.calls |-> s.calls[i].name]

\* C14: determinism.  Two runs with the same parameters, the same operations
\* available (in whatever registry layout) and the same responses have
\* invoked the same operations in the same order, hold ledgers with the same
\* step names and statuses in the same order, and, once returned, the same ok.
C14_Deterministic ==
  \A r1, r2 \in Runs :
    LET a == runs[r1]
        b == runs[r2]
    IN ( /\ a.pc # "idle" /\ b.pc # "idle"
         /\ a.params = b.params
         /\ RequiredOps(a) \cap {CheckTool, RegisterTool, NameserverTool, ProvisionTool}
              = RequiredOps(b) \cap {CheckTool, RegisterTool, NameserverTool, ProvisionTool}
         /\ a.responses = b.responses )
       =>
       ( /\ CallNames(a) = CallNames(b)
         /\ StepNames(a.steps) = StepNames(b.steps)
         /\ Statuses(a.steps) = Statuses(b.steps)
         /\ a.pc = b.pc
         /\ a.pc = "done" => a.result.ok = b.result.ok )

\* Two runs over different registry layouts received the same three responses.
C14_Witness ==
  \E r1, r2 \in Runs :
    /\ r1 # r2
    /\ runs[r1].params = runs[r2].params
    /\ runs[r1].pc # "idle"
    /\ runs[r1].inwxTools # runs[r2].inwxTools
    /\ runs[r1].responses = runs[r2].responses
    /\ Len(runs[r1].responses) = 3

\* The underlying invocations made for guarded call i.
RemoteCalls(g, i) == {k \in DOMAIN g.remote : g.remote[k].call = i}

\* Guarded call i was refused with a policy violation naming `rule`.
RejectedBy(g, i, rule) ==
  /\ g.log[i].state = "rejected"
  /\ g.log[i].result.kind = "throw"
  /\ g.log[i].result.error.rule = rule
  /\ g.log[i].result.error.operation = g.log[i].name
  /\ RemoteCalls(g, i) = {}

\* The call violates neither rule of the policy.
Permits(policy, name) ==
  /\ ~(policy.readOnly /\ name \in WriteOps)
  /\ policy.allowedOperations = {} \/ name \in policy.allowedOperations

\* C15: under readOnly = true every call of a write operation is rejected
\* with a policy violation naming the operation and the rule 'readOnly', and
\* the underlying operation is not invoked.
C15_ReadOnly ==
  \A i \in DOMAIN guard.log :
    (guard.policy.readOnly /\ guard.log[i].name \in WriteOps)
      => RejectedBy(guard, i, "readOnly")

\* A write that is also missing from the allow-list was refused under readOnly.
C15_Witness ==
  \E i \in DOMAIN guard.log :
    /\ guard.policy.readOnly
    /\ guard.log[i].name = NameserverTool
    /\ guard.policy.allowedOperations = {CheckTool, RegisterTool}
    /\ guard.log[i].state = "rejected"

C17_PassThrough ==
  \A i \in DOMAIN guard.log :
    Permits(guard.policy, guard.log[i].name)
      => /\ guard.log[i].state # "rejected"
         /\ Cardinality(RemoteCalls(guard, i)) = 1
         /\ \A k \in RemoteCalls(guard, i) :
              /\ guard.remote[k].name = guard.log[i].name
              /\ guard.remote[k].params = guard.log[i].params
              /\ guard.log[i].result = guard.remote[k].outcome
              /\ (guard.log[i].state = "settled") = (guard.remote[k].outcome # JUndef)

\* Under readOnly = true a read was forwarded and its error came back, and an
\* allow-listed operation was forwarded and its value came back.
C17_Witness ==
  \E i, j \in DOMAIN guard.log :
    /\ guard.policy = Policy(TRUE, {"inwx_account_info"})
    /\ guard.log[i].name = "inwx_account_info"
    /\ guard.log[i].result = Threw(JError("API timeout"))
    /\ guard.log[j].result = Returned(JObj([ok |-> JBool(TRUE)]))

\* C18: the policy of a registry never changes, and every call is decided
\* from the policy and the operation alone, whatever was decided before: a
\* call is forwarded iff the policy permits it, so the underlying invocations
\* are exactly those of the permitted calls, one each.
C18_DecidedAfresh ==
  /\ [](\A i \in DOMAIN guard.log :
          /\ (guard.log[i].state # "rejected") = Permits(guard.policy, guard.log[i].name)
          /\ Cardinality(RemoteCalls(guard, i))
               = IF Permits(guard.policy, guard.log[i].name) THEN 1 ELSE 0)
  /\ [](Len(guard.remote)
          = Cardinality({i \in DOMAIN guard.log : Permits(guard.policy, guard.log[i].name)}))
  /\ [][guard'.policy = guard.policy]_vars

\* A permitted call follows a rejected one.
C18_Witness ==
  /\ Len(guard.log) = 2
  /\ guard.log[1].state = "rejected"
  /\ guard.log[2].state = "settled"

\* ------------------------------- the workflow over a guarded registrar

RegistrarAwaits == {"await_check", "await_register", "await_nameserver"}

\* The call run s has just issued: a registrar operation is guard-wrapped, so
\* its run() enters the guard; the hosting operation is not.
Issue(g, s) ==
  IF s.pc \in RegistrarAwaits
  THEN GuardedRun(g, Last(s.calls).name, Last(s.calls).params)
  ELSE g

\* What the registrar operation awaited at pc may return.
RegistrarValues(pc) ==
  IF pc = "await_check"
  THEN {JArr(<<JObj([avail |-> JBool(TRUE)])>>), JArr(<<JObj([avail |-> JBool(FALSE)])>>)}
  ELSE {JObj([ok |-> JBool(TRUE)])}

\* A guard-wrapped registrar registry holds every registrar operation.
GuardedInputs == {FullInwx} \X IspToolsets \X CoreParams

GuardedCall(r, in) ==
  /\ runs[r].pc = "idle"
  /\ LET s == Start(in[1], in[2], in[3])
     IN /\ runs' = Update(r, s)
        /\ guard' = Issue(guard, s)

\* The guard refused the awaited call: its run() rejects with the violation.
GuardRejects(r) ==
  /\ runs[r].pc \in RegistrarAwaits
  /\ Last(guard.log).state = "rejected"
  /\ LET s == ApplyOutcome(runs[r], Last(guard.log).result)
     IN /\ runs' = Update(r, s)
        /\ guard' = Issue(guard, s)

RegistrarReturns(r) ==
  /\ runs[r].pc \in RegistrarAwaits
  /\ Last(guard.log).state = "pending"
  /\ \E v \in RegistrarValues(runs[r].pc) :
       LET s == ApplyOutcome(runs[r], Returned(v))
       IN /\ runs' = Update(r, s)
          /\ guard' = Issue(UnderlyingSettled(guard, Len(guard.log), Returned(v)), s)

RegistrarThrows(r) ==
  /\ runs[r].pc \in RegistrarAwaits
  /\ Last(guard.log).state = "pending"
  /\ \E e \in ToolErrors :
       LET s == ApplyOutcome(runs[r], Threw(e))
       IN /\ runs' = Update(r, s)
          /\ guard' = Issue(UnderlyingSettled(guard, Len(guard.log), Threw(e)), s)

NextGuarded ==
  \E r \in SeqRuns :
    \/ \E in \in GuardedInputs : GuardedCall(r, in)
    \/ GuardRejects(r)
    \/ RegistrarReturns(r)
    \/ RegistrarThrows(r)
    \/ ProvisionReturns(r)
    \/ ProvisionThrows(r)

SpecGuarded == InitGuard /\ [][NextGuarded]_vars

\* The underlying operation `name` has been invoked through guard g.
Reached(g, name) == \E k \in DOMAIN g.remote : g.remote[k].name = name

\* C19: with the registrar registry guarded under readOnly = true, a run whose
\* check reported the domain available and which was not asked to skip
\* registration has its inwx_domain_register call refused; the refusal is
\* handled as a stage failure: the run returns ok = false, its last step is
\* (domain_register, error) carrying the policy-violation message, neither
\* inwx_nameserver_set nor isp_provision_site is invoked, and no underlying
\* write operation is reached.
C19_GuardRejection ==
  \A r \in Runs :
    LET s == runs[r] IN
      ( /\ guard.policy.readOnly
        /\ s.pc # "idle"
        /\ CheckReturned(s)
        /\ ReportsAvailable(CheckRaw(s))
        /\ ~SkipRequested(s) )
      =>
      /\ s.pc \in {"await_register", "done"}
      /\ s.pc = "await_register" => Last(guard.log).state = "rejected"
      /\ s.pc = "done" =>
           /\ ~s.result.ok
           /\ Last(s.result.steps) =
                [step |-> "domain_register", status |-> "error",
                 error |-> PolicyViolation(RegisterTool, "readOnly").message]
      /\ ~Invoked(s, NameserverTool) /\ ~Invoked(s, ProvisionTool)
      /\ ~Reached(guard, RegisterTool) /\ ~Reached(guard, NameserverTool)

\* The guard refused the registration and the run has returned.
C19_Witness ==
  \E r \in Runs :
    LET s == runs[r] IN
      /\ guard.policy.readOnly
      /\ s.pc = "done"
      /\ HasThrown(s, RegisterTool)
      /\ ThrownBy(s, RegisterTool) = PolicyViolation(RegisterTool, "readOnly")
      /\ s.params.nameservers # <<>>
      /\ Reached(guard, CheckTool)

\* ------------------------------------------------- registration branches

\* The check returned "available" and the caller did not ask to skip.
RegistrationDue(s) ==
  CheckReturned(s) /\ ReportsAvailable(CheckRaw(s)) /\ ~SkipRequested(s)

\* The branch of stage 2 the run has taken, as its ledger and lookups show.
TookExplicitSkip(s) == Len(s.steps) >= 2 /\ s.steps[2] = SkippedExplicit
TookUnavailableSkip(s) == Len(s.steps) >= 2 /\ s.steps[2] = SkippedUnavailable
TookRegistration(s) == LookedUp(s, RegisterTool)

BranchesTaken(s) ==
  (IF TookExplicitSkip(s) THEN 1 ELSE 0) + (IF TookUnavailableSkip(s) THEN 1 ELSE 0)
    + (IF TookRegistration(s) THEN 1 ELSE 0)

\* C21 as stated: inwx_domain_register is invoked if and only if the check
\* returned "available" and skipRegistration is not set.
C21_AsStated ==
  \A r \in Runs :
    LET s == runs[r] IN
      s.pc # "idle" => (Invoked(s, RegisterTool) <=> RegistrationDue(s))

\* C21 (amended): inwx_domain_register is invoked if and only if the check
\* returned "available", skipRegistration is not set and the registrar registry
\* holds inwx_domain_register; it is invoked at most once.  The three branches
\* of stage 2 are mutually exclusive: a run whose check returned takes exactly
\* one of them (explicit skip iff skipRegistration, registration iff not
\* skipped and available, unavailable skip otherwise), and a run whose check
\* did not return takes none.
C21_RegisterIff ==
  \A r \in Runs :
    LET s == runs[r] IN
      s.pc # "idle" =>
        /\ Invoked(s, RegisterTool)
             <=> (RegistrationDue(s) /\ Has(s.inwxTools, RegisterTool))
        /\ Cardinality({i \in DOMAIN s.calls : s.calls[i].name = RegisterTool}) <= 1
        /\ BranchesTaken(s) = IF CheckReturned(s) THEN 1 ELSE 0
        /\ TookExplicitSkip(s) <=> (CheckReturned(s) /\ SkipRequested(s))
        /\ TookRegistration(s) <=> RegistrationDue(s)
        /\ TookUnavailableSkip(s) <=>
             (CheckReturned(s) /\ ~SkipRequested(s) /\ ~ReportsAvailable(CheckRaw(s)))

\* Registration is attempted after an "available" answer with skipRegistration
\* given as false.
C21_Witness ==
  \E r \in Runs :
    LET s == runs[r] IN
      /\ s.pc = "await_register"
      /\ RegistrationDue(s)
      /\ s.params.skipRegistration = JBool(FALSE)

\* ------------------------------------------------- created and the ledger

\* Status of the step called `name` in a ledger, "none" when there is none.
StatusOf(steps, name) ==
  IF \E i \in DOMAIN steps : steps[i].step = name
  THEN steps[CHOOSE i \in DOMAIN steps : steps[i].step = name].status
  ELSE "none"

\* created.key is set, to v.
IsSet(created, key) == key \in DOMAIN created
IsSetTo(created, key, v) == key \in DOMAIN created /\ created[key] = v

\* The value isp_provision_site returned in run s.
ProvisionReturned(s) == Last(s.responses).outcome.value

\* C22: in every returned result, created agrees with the ledger:
\* domainRegistered is true iff domain_register is 'ok', false iff it is
\* 'skipped', and unset when that step is absent or 'error';
\* nameserversConfigured is true iff nameserver_set is 'ok' and is unset
\* otherwise; hostingProvisioned is true iff isp_provision is 'ok', and exactly
\* then ispProvisionResult is set, to the value isp_provision_site returned.
\* created holds no other key.
C22_CreatedAgrees ==
  \A r \in Runs :
    LET s == runs[r] IN
      s.pc = "done" =>
        LET c == s.result.created
            l == s.result.steps
        IN /\ IsSetTo(c, "domainRegistered", TRUE) <=> StatusOf(l, "domain_register") = "ok"
           /\ IsSetTo(c, "domainRegistered", FALSE)
                <=> StatusOf(l, "domain_register") = "skipped"
           /\ ~IsSet(c, "domainRegistered")
                <=> StatusOf(l, "domain_register") \in {"none", "error"}
           /\ IsSetTo(c, "nameserversConfigured", TRUE)
                <=> StatusOf(l, "nameserver_set") = "ok"
           /\ ~IsSet(c, "nameserversConfigured") <=> StatusOf(l, "nameserver_set") # "ok"
           /\ IsSetTo(c, "hostingProvisioned", TRUE) <=> StatusOf(l, "isp_provision") = "ok"
           /\ ~IsSet(c, "hostingProvisioned") <=> StatusOf(l, "isp_provision") # "ok"
           /\ IsSet(c, "ispProvisionResult") <=> StatusOf(l, "isp_provision") = "ok"
           /\ IsSet(c, "ispProvisionResult")
                => c["ispProvisionResult"] = ProvisionReturned(s)
           /\ DOMAIN c \subseteq {"domainRegistered", "nameserversConfigured",
                                  "hostingProvisioned", "ispProvisionResult"}

\* A run that registered and set nameservers but failed to provision: two flags
\* set, the hosting ones unset.
C22_Witness ==
  \E r \in Runs :
    LET s == runs[r] IN
      /\ s.pc = "done"
      /\ StatusOf(s.result.steps, "domain_register") = "ok"
      /\ StatusOf(s.result.steps, "nameserver_set") = "ok"
      /\ StatusOf(s.result.steps, "isp_provision") = "error"
      /\ DOMAIN s.result.created = {"domainRegistered", "nameserversConfigured"}

\* ------------------------------------------------------ availability

\* The availability field of one record; false when the record or the field
\* is missing.
AvailField(rec) ==
  IF rec.t = "obj" /\ "avail" \in DOMAIN rec.f THEN rec.f.avail = JBool(TRUE) ELSE FALSE

\* The availability the claim assigns to a result: the record's field for a
\* single record, the first record's field for a sequence, false for an empty
\* sequence or null.
ExpectedAvailable(raw) ==
  CASE raw.t = "arr" -> IF raw.a = <<>> THEN FALSE ELSE AvailField(raw.a[1])
    [] raw.t = "obj" -> AvailField(raw)
    [] OTHER -> FALSE

\* C23: whenever inwx_domain_check returns, whatever the result's shape, the
\* first step is (domain_check, ok) with data {domain, available} where
\* available is computed as above, and the workflow goes on to stage 2 (a
\* second step is recorded or inwx_domain_register is awaited); the
\* domain_check step is 'error' only when an exception was raised.
C23_Availability ==
  \A r \in Runs :
    LET s == runs[r] IN
      /\ (s.pc # "idle" /\ CheckReturned(s)) =>
           /\ s.steps[1] = [step |-> "domain_check", status |-> "ok",
                            data |-> [domain |-> Trim(s.params.domain),
                                      available |-> ExpectedAvailable(CheckRaw(s))]]
           /\ s.domainAvailable = ExpectedAvailable(CheckRaw(s))
           /\ Len(s.steps) >= 2 \/ s.pc = "await_register"
      /\ (Len(s.steps) >= 1 /\ s.steps[1].step = "domain_check"
            /\ s.steps[1].status = "error")
           => (s.thrown # <<>> /\ ~CheckReturned(s))

\* The check returned null and the run went on past the nameserver stage.
C23_Witness ==
  \E r \in Runs :
    LET s == runs[r] IN
      /\ s.pc = "await_provision"
      /\ CheckReturned(s)
      /\ CheckRaw(s) = JNull
      /\ s.steps[1].status = "ok"
      /\ ~s.steps[1].data.available

\* ------------------------------------------------ parameters passed on

\* The caller supplied the optional parameter v.
Supplied(v) == v.t \notin {"undefined", "null"}

\* The invocations of `name` made by run s.
CallsOf(s, name) == {s.calls[i] : i \in {k \in DOMAIN s.calls : s.calls[k].name = name}}

\* C24: every invocation of inwx_domain_register receives exactly the trimmed
\* domain, the caller's nameserver list, the caller's contacts, and a period
\* equal to registrationPeriod when supplied and 1 when not.
C24_RegisterParams ==
  \A r \in Runs :
    LET s == runs[r] IN
      \A c \in CallsOf(s, RegisterTool) :
        /\ DOMAIN c.params = {"domain", "period", "ns", "contacts"}
        /\ c.params.domain = Trim(s.params.domain)
        /\ c.params.ns = s.params.nameservers
        /\ c.params.contacts = s.params.contacts
        /\ c.params.period = IF Supplied(s.params.registrationPeriod)
                             THEN s.params.registrationPeriod ELSE JNum(1)

\* Registration was invoked with a supplied period of 0 and contact handles.
C24_Witness ==
  \E r \in Runs :
    LET s == runs[r] IN
      \E c \in CallsOf(s, RegisterTool) :
        /\ s.params.registrationPeriod = JNum(0)
        /\ s.params.contacts # JUndef
        /\ c.params.period = JNum(0)

\* C25: every invocation of isp_provision_site receives createMail and
\* createDb equal to the caller's values when supplied (false included) and
\* true when not, and carries the key serverId, with the caller's value, if
\* and only if the caller supplied a serverId; domain, clientName, clientEmail
\* and serverIp are passed as given (domain trimmed).
C25_ProvisionParams ==
  \A r \in Runs :
    LET s == runs[r] IN
      \A c \in CallsOf(s, ProvisionTool) :
        /\ c.params.createMail = IF Supplied(s.params.createMail)
                                 THEN s.params.createMail ELSE JBool(TRUE)
        /\ c.params.createDb = IF Supplied(s.params.createDb)
                               THEN s.params.createDb ELSE JBool(TRUE)
        /\ "serverId" \in DOMAIN c.params <=> Supplied(s.params.serverId)
        /\ "serverId" \in DOMAIN c.params => c.params.serverId = s.params.serverId
        /\ c.params.domain = Trim(s.params.domain)
        /\ c.params.clientName = s.params.clientName
        /\ c.params.clientEmail = s.params.clientEmail
        /\ c.params.serverIp = s.params.serverIp

\* Hosting was provisioned with createMail false, createDb defaulted and a
\* null serverId left out.
C25_Witness ==
  \E r \in Runs :
    LET s == runs[r] IN
      \E c \in CallsOf(s, ProvisionTool) :
        /\ s.params.createMail = JBool(FALSE)
        /\ s.params.createDb = JUndef
        /\ s.params.serverId = JNull
        /\ c.params.createMail = JBool(FALSE)
        /\ c.params.createDb = JBool(TRUE)
        /\ "serverId" \notin DOMAIN c.params

\* ------------------------------------------------- skipRegistration = true

\* The run's only ledger entry is (domain_check, error).
CheckErrorOnly(s) ==
  /\ s.pc = "done" /\ ~s.result.ok
  /\ Len(s.result.steps) = 1
  /\ s.result.steps[1].step = "domain_check"
  /\ s.result.steps[1].status = "error"

\* C26 as stated: with skipRegistration = true the check is resolved first,
\* and a run whose check is absent or throws ends with ok = false and the
\* single step (domain_check, error).
C26_AsStated ==
  \A r \in Runs :
    LET s == runs[r] IN
      (s.pc # "idle" /\ SkipRequested(s)) =>
        /\ s.lookups # <<>> /\ s.lookups[1].name = CheckTool
        /\ (~Has(s.inwxTools, CheckTool) \/ HasThrown(s, CheckTool)) => CheckErrorOnly(s)

\* C26 (amended): with skipRegistration = true and a domain that is not empty
\* after trimming, the availability check is resolved first and, when present,
\* invoked first; if it is absent or throws the run ends with ok = false and
\* the single step (domain_check, error) although registration would have been
\* skipped; inwx_domain_register is never invoked; once the check has
\* returned the second step is the explicit skip; and a run that returns
\* without any exception has ok = true and the four steps with registration
\* 'skipped'.
C26_SkipRegistration ==
  \A r \in Runs :
    LET s == runs[r] IN
      (s.pc # "idle" /\ SkipRequested(s) /\ ~AllWhitespace(s.params.domain)) =>
        /\ s.lookups # <<>> /\ s.lookups[1].name = CheckTool
        /\ Has(s.inwxTools, CheckTool) => (s.calls # <<>> /\ s.calls[1].name = CheckTool)
        /\ (~Has(s.inwxTools, CheckTool) \/ HasThrown(s, CheckTool)) =>
             (CheckErrorOnly(s) /\ Len(s.calls) <= 1)
        /\ ~Invoked(s, RegisterTool)
        /\ CheckReturned(s) => (Len(s.steps) >= 2 /\ s.steps[2] = SkippedExplicit)
        /\ (s.pc = "done" /\ s.thrown = <<>>) =>
             /\ s.result.ok
             /\ StepNames(s.result.steps) = StageSteps
             /\ s.result.steps[1].status = "ok"
             /\ s.result.steps[2] = SkippedExplicit
             /\ s.result.steps[3].status \in {"ok", "skipped"}
             /\ s.result.steps[4].status = "ok"
             /\ Invoked(s, ProvisionTool)

\* With skipRegistration = true the check threw and the run has returned.
C26_Witness ==
  \E r \in Runs :
    LET s == runs[r] IN
      /\ s.pc = "done"
      /\ SkipRequested(s)
      /\ HasThrown(s, CheckTool)
      /\ CheckErrorOnly(s)

\* ------------------------------------------------------ lazy resolution

\* The registry stage k resolves its operation in.
StageRegistry(s, k) == IF k = 4 THEN s.ispTools ELSE s.inwxTools

\* Stage k of run s needed its operation and did not find it.
MissingAt(s, k) ==
  LookedUp(s, StageTools[k]) /\ ~Has(StageRegistry(s, k), StageTools[k])

\* Some step of the ledger reports that `name` was not found.
ReportsMissing(steps, name) ==
  \E i \in DOMAIN steps : steps[i].status = "error" /\ steps[i].error = NotFoundText(name)

\* C27: operations are resolved at the stage that needs them.  When stage k
\* needs an operation its registry lacks, the run has completed the k - 1
\* earlier stages (each step 'ok' or 'skipped', every 'ok' one having invoked
\* its operation and received its result) and returns ok = false with the
\* k-th and last step 'error' for that stage, naming the missing operation.
\* An operation is looked up only by a stage that is reached and not skipped,
\* so an operation whose stage is skipped or not reached is never reported
\* missing, present or not.
C27_LazyResolution ==
  \A r \in Runs :
    LET s == runs[r] IN
      \A k \in DOMAIN StageTools :
        /\ MissingAt(s, k) =>
             /\ s.pc = "done" /\ ~s.result.ok
             /\ Len(s.result.steps) = k
             /\ s.result.steps[k] = [step |-> StageSteps[k], status |-> "error",
                                     error |-> NotFoundText(StageTools[k])]
             /\ \A j \in 1..(k - 1) :
                  /\ s.result.steps[j].step = StageSteps[j]
                  /\ s.result.steps[j].status \in {"ok", "skipped"}
                  /\ s.result.steps[j].status = "ok" =>
                       /\ Invoked(s, StageTools[j])
                       /\ \E i \in DOMAIN s.responses :
                            /\ s.responses[i].name = StageTools[j]
                            /\ s.responses[i].outcome.kind = "return"
             /\ ~Invoked(s, StageTools[k])
        /\ ReportsMissing(s.steps, StageTools[k]) => MissingAt(s, k)
        /\ (\E i \in DOMAIN s.steps :
              s.steps[i].step = StageSteps[k] /\ s.steps[i].status = "skipped")
             => ~LookedUp(s, StageTools[k])
        /\ Len(s.steps) < k - 1 => ~LookedUp(s, StageTools[k])

\* isp_provision_site is missing: the domain was registered and its
\* nameservers set before the run ended with the resolution error.
C27_Witness ==
  \E r \in Runs :
    LET s == runs[r] IN
      /\ MissingAt(s, 4)
      /\ Invoked(s, RegisterTool)
      /\ Invoked(s, NameserverTool)
      /\ s.pc = "done"
      /\ Last(s.result.steps).error = NotFoundText(ProvisionTool)

\* ----------------------------------------------------------- termination

\* C28: if every invoked operation eventually settles, every run that was
\* called eventually returns a result.  Each of the four operations is invoked
\* at most once in a run (at most four invocations, a failed one never again).
\* A suspended run changes only when the operation it awaits settles: nothing
\* in the engine ends the wait, so without a settlement it never returns.
C28_Terminates ==
  /\ [](\A r \in Runs :
          /\ Len(runs[r].calls) <= 4
          /\ \A i, j \in DOMAIN runs[r].calls :
               runs[r].calls[i].name = runs[r].calls[j].name => i = j
          /\ \A i \in DOMAIN runs[r].calls :
               runs[r].calls[i].name \in {StageTools[k] : k \in DOMAIN StageTools})
  /\ [][\A r \in Runs :
          (runs[r].pc \in Awaiting /\ runs'[r] # runs[r]) =>
            /\ Len(runs'[r].responses) = Len(runs[r].responses) + 1
            /\ Last(runs'[r].responses).name = Last(runs[r].calls).name]_vars
  /\ \A r \in Runs : (runs[r].pc # "idle") ~> (runs[r].pc = "done")

\* A run has returned after all four operations were invoked and settled.
C28_Witness ==
  \E r \in Runs :
    /\ runs[r].pc = "done"
    /\ Len(runs[r].calls) = 4
    /\ Len(runs[r].responses) = 4

====
